---- MODULE Spec2Model ----
(***************************************************************************)
(* Model of the layer compositing code of mcp-psd2x (src/main.cpp):        *)
(* McpServer::get_layer_image, computeBoundingRect, applyMasks and         *)
(* compositeChildren, together with load_psd which installs a layer tree.  *)
(*                                                                         *)
(* A QImage is a record; a canvas is a QImage that keeps the sequence of   *)
(* drawImage calls made on it by its QPainter (the pixel arithmetic of a   *)
(* blend belongs to QPainter, the calls belong to this program).           *)
(***************************************************************************)
EXTENDS Integers, Sequences, FiniteSets, TLC

VARIABLES fileName, layers, disk, call, reply, maskItem, maskOut, maskTrace,
          hints, sidecar, exported, fontMapper, firstRender

vars == <<fileName, layers, disk, call, reply, maskItem, maskOut, maskTrace,
          hints, sidecar, exported, fontMapper, firstRender>>

(***************************************************************************)
(* Bounds of the model.                                                    *)
(***************************************************************************)
MaxShape == 5
MaxLeaf == 8
MaxFolder == 5
MaxImg == 2
MaxOff == 2

Min(a, b) == IF a < b THEN a ELSE b
Max(a, b) == IF a > b THEN a ELSE b
qMin(a, b) == IF a < b THEN a ELSE b

(***************************************************************************)
(* QRect, restricted to rectangles of non-negative size.                   *)
(***************************************************************************)
Rect(x, y, w, h) == [x |-> x, y |-> y, w |-> w, h |-> h]
QRectDefault == Rect(0, 0, 0, 0)
isNullRect(r) == r.w = 0 /\ r.h = 0
isEmptyRectOnlyNull(r) == r.w = 0 /\ r.h = 0
isEmptyRect(r) == r.w <= 0 \/ r.h <= 0
topLeft(r) == [x |-> r.x, y |-> r.y]
PointSubReversed(p, q) == [x |-> q.x - p.x, y |-> q.y - p.y]
PointSub(p, q) == [x |-> p.x - q.x, y |-> p.y - q.y]

unitedDropsNull(a, b) ==
    LET x1 == Min(a.x, b.x)
        y1 == Min(a.y, b.y)
        x2 == Max(a.x + a.w - 1, b.x + b.w - 1)
        y2 == Max(a.y + a.h - 1, b.y + b.h - 1)
    IN Rect(x1, y1, x2 - x1 + 1, y2 - y1 + 1)

\* QRect::united: a null rectangle is the neutral element, otherwise the
\* smallest rectangle spanning both operands' edges.
united(a, b) ==
    IF isNullRect(a) THEN b
    ELSE IF isNullRect(b) THEN a
    ELSE LET x1 == Min(a.x, b.x)
             y1 == Min(a.y, b.y)
             x2 == Max(a.x + a.w - 1, b.x + b.w - 1)
             y2 == Max(a.y + a.h - 1, b.y + b.h - 1)
         IN Rect(x1, y1, x2 - x1 + 1, y2 - y1 + 1)

(***************************************************************************)
(* Opacity is a qreal in [0,1]; it is kept as a reduced fraction <<n,d>>.  *)
(***************************************************************************)
RECURSIVE Gcd(_, _)
Gcd(a, b) == IF b = 0 THEN a ELSE Gcd(b, a % b)
Frac(n, d) == IF n = 0 THEN <<0, 1>> ELSE <<n \div Gcd(n, d), d \div Gcd(n, d)>>
FMul(a, b) == Frac(a[1] * b[1], a[2] * b[2])
One == <<1, 1>>
Half == <<1, 2>>

(***************************************************************************)
(* QImage.  px[y+1][x+1] is the pixel (x,y): a record [rgb, a] for a       *)
(* colour image, a gray level for an 8-bit mask.  paints, endOpacity and   *)
(* endMode are used by canvases only.                                      *)
(***************************************************************************)
NullImage ==
    [null |-> TRUE, w |-> 0, h |-> 0, alpha |-> FALSE, px |-> <<>>,
     canvas |-> FALSE, paints |-> <<>>, endOpacity |-> One, endMode |-> "SourceOver"]

MkImage(w, h, alpha, px) ==
    IF w <= 0 \/ h <= 0 THEN NullImage
    ELSE [null |-> FALSE, w |-> w, h |-> h, alpha |-> alpha, px |-> px,
          canvas |-> FALSE, paints |-> <<>>, endOpacity |-> One, endMode |-> "SourceOver"]

\* qRgba keeps the low 8 bits of every channel.
qRgba(rgb, a) == [rgb |-> rgb, a |-> a % 256]
qAlpha(p) == p.a
qColor(p) == p.rgb

\* qGray of an (r,g,b) triple.
qGray(c) == (c[1] * 11 + c[2] * 16 + c[3] * 5) \div 32

\* QImage::pixel on an 8-bit gray image: the gray level in all three
\* channels; an invalid coordinate yields the constant 12345 (0x003039).
pixel(img, x, y) ==
    IF x >= 0 /\ x < img.w /\ y >= 0 /\ y < img.h
    THEN <<img.px[y + 1][x + 1], img.px[y + 1][x + 1], img.px[y + 1][x + 1]>>
    ELSE <<0, 48, 57>>

\* QImage::convertToFormat(Format_ARGB32): an image without alpha channel
\* becomes fully opaque.
convertToFormat(img) ==
    IF img.alpha THEN img
    ELSE [img EXCEPT !.alpha = TRUE,
                     !.px = [y \in 1..img.h |-> [x \in 1..img.w |->
                                [rgb |-> img.px[y][x].rgb, a |-> 255]]]]

(***************************************************************************)
(* McpServer::applyMasks                                                   *)
(***************************************************************************)
transMaskWhenAlpha(item, image) ==
    ~item.transparencyMask.null

\* main.cpp:534, the condition of the transparency-mask step
transMaskApplies(item, image) ==
    ~item.transparencyMask.null /\ ~image.alpha

\* main.cpp:532-544
transStep(item, image) ==
    LET transMask == item.transparencyMask
        conv == convertToFormat(image)
    IN IF ~transMaskApplies(item, image) THEN image
       ELSE [conv EXCEPT
               !.px = [y \in 1..conv.h |-> [x \in 1..conv.w |->
                  IF y - 1 < qMin(conv.h, transMask.h) /\ x - 1 < qMin(conv.w, transMask.w)
                  THEN qRgba(qColor(conv.px[y][x]), transMask.px[y][x])
                  ELSE conv.px[y][x]]]]

inMaskNoLowerBound(layerMask, maskX, maskY) ==
    maskX < layerMask.w /\ maskY < layerMask.h

\* main.cpp:560-561
inMask(layerMask, maskX, maskY) ==
    maskX >= 0 /\ maskX < layerMask.w /\ maskY >= 0 /\ maskY < layerMask.h

\* main.cpp:557-563: the mask value of leaf pixel (x,y), with the
\* coordinate handed to QImage::pixel (<<>> when the mask is not read)
maskSample(item, x, y) ==
    LET maskRect == item.layerMaskRect
        layerRect == item.rect
        maskX == (layerRect.x + x) - maskRect.x
        maskY == (layerRect.y + y) - maskRect.y
    IN IF inMask(item.layerMask, maskX, maskY)
       THEN [value |-> qGray(pixel(item.layerMask, maskX, maskY)), read |-> <<maskX, maskY>>]
       ELSE [value |-> item.layerMaskDefaultColor, read |-> <<>>]

newAlphaRoundsUp(alpha, maskValue) == (alpha * maskValue + 254) \div 255

\* main.cpp:565
newAlpha(alpha, maskValue) == (alpha * maskValue) \div 255

\* main.cpp:546-570
layerStep(item, image) ==
    IF item.layerMask.null THEN image
    ELSE LET conv == convertToFormat(image)
         IN [conv EXCEPT
               !.px = [y \in 1..conv.h |-> [x \in 1..conv.w |->
                  qRgba(qColor(conv.px[y][x]),
                        newAlpha(qAlpha(conv.px[y][x]), maskSample(item, x - 1, y - 1).value))]]]

\* main.cpp:526-573
applyMasks(item) ==
    LET image == item.image
    IN IF image.null THEN image
       ELSE layerStep(item, transStep(item, image))

\* what applyMasks does on the way: the image after the transparency-mask
\* step and, per leaf pixel, the layer-mask value used and the coordinate read
applyMasksTrace(item) ==
    [mid |-> IF item.image.null THEN item.image ELSE transStep(item, item.image),
     samples |-> IF item.image.null \/ item.layerMask.null THEN {}
                 ELSE {[x |-> x, y |-> y, value |-> maskSample(item, x, y).value,
                        read |-> maskSample(item, x, y).read] :
                            x \in 0..(item.image.w - 1), y \in 0..(item.image.h - 1)}]
NoTrace == [mid |-> NullImage, samples |-> {}]


(***************************************************************************)
(* The layer tree held by exporterModel.  Index 0 is the invalid (root)    *)
(* QModelIndex; children[i] lists the rows of i, row 0 (topmost) first.    *)
(***************************************************************************)
Invalid == 0

EmptyDoc == [children |-> <<>>, rootRows |-> <<>>, item |-> <<>>, size |-> [w |-> 0, h |-> 0]]

rows(t, parent) == IF parent = Invalid THEN t.rootRows ELSE t.children[parent]
rowCount(t, parent) == Len(rows(t, parent))
index(t, row, parent) == rows(t, parent)[row + 1]
layerItem(t, idx) == t.item[idx]
layerId(t, idx) == t.item[idx].layerId

\* main.cpp:417-428
RECURSIVE findLayerById(_, _, _), findLoop(_, _, _, _)
findLoop(t, id, parent, row) ==
    IF row >= rowCount(t, parent) THEN Invalid
    ELSE LET idx == index(t, row, parent)
         IN IF layerId(t, idx) = id THEN idx
            ELSE LET found == findLayerById(t, id, idx)
                 IN IF found # Invalid THEN found
                    ELSE findLoop(t, id, parent, row + 1)
findLayerById(t, id, parent) == findLoop(t, id, parent, 0)

\* main.cpp:430-438
RECURSIVE countLayers(_, _), countLoop(_, _, _)
countLoop(t, parent, row) ==
    IF row >= rowCount(t, parent) THEN 0
    ELSE 1 + countLayers(t, index(t, row, parent)) + countLoop(t, parent, row + 1)
countLayers(t, parent) == countLoop(t, parent, 0)

skipsHiddenLeavesOnly(item) == ~item.visible /\ item.type # "Folder"

\* main.cpp:514 and main.cpp:586: the child is passed over
skipped(item) == ~item.visible

\* main.cpp:508-523
RECURSIVE computeBoundingRect(_, _), boundsLoop(_, _, _, _)
boundsLoop(t, parent, row, bounds) ==
    IF row >= rowCount(t, parent) THEN bounds
    ELSE LET idx == index(t, row, parent)
             item == layerItem(t, idx)
         IN IF skipped(item) THEN boundsLoop(t, parent, row + 1, bounds)
            ELSE IF item.type = "Folder"
            THEN boundsLoop(t, parent, row + 1, united(bounds, computeBoundingRect(t, idx)))
            ELSE boundsLoop(t, parent, row + 1, united(bounds, item.rect))
computeBoundingRect(t, parent) == boundsLoop(t, parent, 0, QRectDefault)

(***************************************************************************)
(* QPainter: ambient opacity and composition mode, the save/restore stack  *)
(* and the drawImage calls received by its paint device.                   *)
(***************************************************************************)
QPainterNew == [opacity |-> One, mode |-> "SourceOver", stack |-> <<>>, paints |-> <<>>]
ambient(p) == [opacity |-> p.opacity, mode |-> p.mode]
save(p) == [p EXCEPT !.stack = Append(@, ambient(p))]
restoreKeepsState(p) == [p EXCEPT !.stack = SubSeq(@, 1, Len(@) - 1)]
restore(p) ==
    [p EXCEPT !.opacity = p.stack[Len(p.stack)].opacity,
              !.mode = p.stack[Len(p.stack)].mode,
              !.stack = SubSeq(@, 1, Len(@) - 1)]
setCompositionMode(p, m) == [p EXCEPT !.mode = m]
setOpacity(p, o) == [p EXCEPT !.opacity = o]
drawImage(p, pos, img, node, origin) ==
    [p EXCEPT !.paints = Append(@, [node |-> node, pos |-> pos, img |-> img,
                                    mode |-> p.mode, opacity |-> p.opacity,
                                    origin |-> origin,
                                    before |-> ambient(p), after |-> ambient(p)])]

\* QtPsdGui::compositionMode as used at main.cpp:611 and main.cpp:624
compositionMode(blend) ==
    CASE blend = "Normal" -> "SourceOver"
      [] blend = "Multiply" -> "Multiply"
      [] blend = "Screen" -> "Screen"
      [] OTHER -> "SourceOver"

\* QImage(size, Format_ARGB32) filled transparent, after painter.end()
canvasImage(size, p) ==
    [null |-> FALSE, w |-> size.w, h |-> size.h, alpha |-> TRUE, px |-> <<>>,
     canvas |-> TRUE, paints |-> p.paints, endOpacity |-> p.opacity, endMode |-> p.mode]

paintOpacityNoFill(p, item) == FMul(p.opacity, item.opacity)
\* main.cpp:612 and main.cpp:625
paintOpacity(p, item) == FMul(FMul(p.opacity, item.opacity), item.fillOpacity)

drawPosAbsolute(corner, origin) == corner
\* main.cpp:613 and main.cpp:626
drawPos(corner, origin) == PointSub(corner, origin)

\* main.cpp:610-614 and main.cpp:622-627: save, set mode and opacity, draw,
\* restore.  The paint records the ambient state on entry and on exit.
paintBlock(painter, item, idx, corner, origin, img) ==
    LET p1 == save(painter)
        p2 == setCompositionMode(p1, compositionMode(item.blendMode))
        p3 == setOpacity(p2, paintOpacity(p2, item))
        p4 == drawImage(p3, drawPos(corner, origin), img, idx, origin)
        p5 == restore(p4)
    IN [p5 EXCEPT !.paints[Len(p5.paints)] =
            [@ EXCEPT !.before = ambient(painter), !.after = ambient(p5)]]

rowAtTopFirst(count, k) == k
\* main.cpp:583: the row handled by iteration k = 0, 1, ... of the loop
rowAt(count, k) == count - 1 - k

isolatedAlways(item) == TRUE
\* main.cpp:590-593: the folder is composited through its own buffer
isolated(item) == item.blendMode # "PassThrough"

\* main.cpp:578-630
RECURSIVE compositeChildren(_, _, _, _, _), compositeLoop(_, _, _, _, _, _)
compositeLoop(t, parent, painter, origin, passThrough, k) ==
    IF k >= rowCount(t, parent) THEN painter
    ELSE LET idx == index(t, rowAt(rowCount(t, parent), k), parent)
             item == layerItem(t, idx)
         IN IF skipped(item)
            THEN compositeLoop(t, parent, painter, origin, passThrough, k + 1)
            ELSE IF item.type = "Folder"
            THEN IF ~isolated(item)
                 THEN compositeLoop(t, parent,
                          compositeChildren(t, idx, painter, origin, TRUE),
                          origin, passThrough, k + 1)
                 ELSE LET childBounds == computeBoundingRect(t, idx)
                      IN IF isEmptyRect(childBounds)
                         THEN compositeLoop(t, parent, painter, origin, passThrough, k + 1)
                         ELSE LET groupPainter ==
                                      compositeChildren(t, idx, QPainterNew,
                                                        topLeft(childBounds), FALSE)
                                  groupCanvas == canvasImage(childBounds, groupPainter)
                              IN compositeLoop(t, parent,
                                     paintBlock(painter, item, idx, topLeft(childBounds),
                                                origin, groupCanvas),
                                     origin, passThrough, k + 1)
            ELSE LET layerImage == applyMasks(item)
                 IN IF layerImage.null
                    THEN compositeLoop(t, parent, painter, origin, passThrough, k + 1)
                    ELSE compositeLoop(t, parent,
                             paintBlock(painter, item, idx, topLeft(item.rect),
                                        origin, layerImage),
                             origin, passThrough, k + 1)
compositeChildrenOwnOpacity(t, parent, painter, origin, passThrough) ==
    compositeLoop(t, parent,
        IF passThrough THEN painter
        ELSE setOpacity(painter, paintOpacity(painter, layerItem(t, parent))),
        origin, passThrough, 0)
compositeChildren(t, parent, painter, origin, passThrough) ==
    compositeLoop(t, parent, painter, origin, passThrough, 0)

\* What QPainter::drawImage leaves in one destination pixel: a transparent
\* source or opacity 0 leaves the destination, an opaque source drawn with
\* SourceOver at opacity 1 replaces it, any other combination is a blend
\* whose value is not tracked (rgb = a = -1).
drawPixel(dst, src, mode, opacity) ==
    IF src.a = 0 \/ opacity[1] = 0 THEN dst
    ELSE IF mode = "SourceOver" /\ opacity = One /\ src.a = 255 THEN src
    ELSE [rgb |-> 0 - 1, a |-> 0 - 1]

\* the paint covers the canvas pixel c = <<x, y>>
Covers(op, c) ==
    /\ op.pos.x <= c[1] /\ c[1] < op.pos.x + op.img.w
    /\ op.pos.y <= c[2] /\ c[2] < op.pos.y + op.img.h

\* pixel c of an image; for a canvas, the transparent fill with its paints
\* drawn in order
RECURSIVE pixelOf(_, _), pixelAfter(_, _, _)
pixelAfter(img, c, k) ==
    IF k = 0 THEN [rgb |-> 0, a |-> 0]
    ELSE LET op == img.paints[k]
             dst == pixelAfter(img, c, k - 1)
         IN IF Covers(op, c)
            THEN drawPixel(dst, pixelOf(op.img, <<c[1] - op.pos.x, c[2] - op.pos.y>>),
                           op.mode, op.opacity)
            ELSE dst
pixelOf(img, c) ==
    IF img.canvas THEN pixelAfter(img, c, Len(img.paints))
    ELSE img.px[c[2] + 1][c[1] + 1]

\* main.cpp:281-309
renderLayer(t, id) ==
    LET idx == findLayerById(t, id, Invalid)
    IN IF idx = Invalid THEN NullImage
       ELSE LET item == layerItem(t, idx)
            IN IF item.type # "Folder" THEN item.image
               ELSE LET bounds == computeBoundingRect(t, idx)
                    IN IF isEmptyRect(bounds) THEN NullImage
                       ELSE canvasImage(bounds,
                                compositeChildren(t, idx, QPainterNew, topLeft(bounds),
                                                  item.blendMode = "PassThrough"))


(***************************************************************************)
(* Layer items.  Only the attributes read by the code above are kept.      *)
(***************************************************************************)
Item(id, type, visible, blend, opacity, fill, rect, image, tmask, lmask, lmaskRect, lmaskDefault) ==
    [layerId |-> id, type |-> type, visible |-> visible, blendMode |-> blend,
     opacity |-> opacity, fillOpacity |-> fill, rect |-> rect, image |-> image,
     transparencyMask |-> tmask, layerMask |-> lmask, layerMaskRect |-> lmaskRect,
     layerMaskDefaultColor |-> lmaskDefault]

\* sample values that differ from pixel to pixel
TransSample(x, y) == (128 + 77 * x + 131 * y) % 256
GraySample(x, y) == (128 + 60 * x + 200 * y) % 256
AlphaSample(x, y) == (255 + 156 * x + 201 * y) % 256

ColourImage(w, h, alpha, base) ==
    MkImage(w, h, alpha,
            [y \in 1..h |-> [x \in 1..w |->
                [rgb |-> base + 2 * (y - 1) + (x - 1),
                 a |-> IF alpha THEN AlphaSample(x - 1, y - 1) ELSE 255]]])
TransMaskImage(w, h) ==
    MkImage(w, h, FALSE, [y \in 1..h |-> [x \in 1..w |-> TransSample(x - 1, y - 1)]])
GrayMaskImage(w, h) ==
    MkImage(w, h, FALSE, [y \in 1..h |-> [x \in 1..w |-> GraySample(x - 1, y - 1)]])

LayerIdOf(idx) == 100 + idx

Folder(idx, visible, blend, opacity, fill) ==
    Item(LayerIdOf(idx), "Folder", visible, blend, opacity, fill, QRectDefault,
         NullImage, NullImage, NullImage, QRectDefault, 0)

Leaf(idx, visible, blend, opacity, fill, rect, image) ==
    Item(LayerIdOf(idx), "Image", visible, blend, opacity, fill, rect,
         image, NullImage, NullImage, QRectDefault, 0)

FolderTable(idx) ==
    << Folder(idx, TRUE, "PassThrough", One, One),
       Folder(idx, TRUE, "Normal", Half, One),
       Folder(idx, FALSE, "Normal", One, One),
       Folder(idx, TRUE, "PassThrough", Half, Half),
       Folder(idx, TRUE, "Multiply", One, Half),
       Folder(idx, FALSE, "PassThrough", One, One) >>

LeafTable(idx) ==
    << Leaf(idx, TRUE, "Normal", One, One, Rect(0, 0, 2, 2), ColourImage(2, 2, FALSE, 10 * idx)),
       Leaf(idx, TRUE, "Normal", One, One, Rect(1, 1, 2, 2), ColourImage(2, 2, FALSE, 10 * idx)),
       Item(LayerIdOf(idx), "Shape", TRUE, "Multiply", Half, Half, Rect(2, 0, 1, 2),
            ColourImage(1, 2, FALSE, 10 * idx), TransMaskImage(1, 2),
            GrayMaskImage(1, 1), Rect(2, 1, 1, 1), 255),
       Leaf(idx, FALSE, "Normal", One, One, Rect(5, 5, 1, 1), ColourImage(1, 1, FALSE, 10 * idx)),
       Leaf(idx, TRUE, "Normal", One, One, Rect(0, 0, 0, 0), NullImage),
       Leaf(idx, TRUE, "Normal", One, Half, Rect(4, 2, 0, 1), NullImage),
       Item(LayerIdOf(idx), "Text", TRUE, "Normal", Half, One, Rect(1, 0, 2, 1),
            NullImage, NullImage, NullImage, QRectDefault, 0),
       Leaf(idx, TRUE, "PassThrough", One, One, Rect(0, 1, 1, 1), ColourImage(1, 1, TRUE, 10 * idx)),
       Leaf(idx, TRUE, "Screen", One, One, Rect(3, 3, 1, 1), ColourImage(1, 1, FALSE, 10 * idx)) >>

\* tree shapes: rows of the invalid index, rows of every index, the folders,
\* and how many of the leaf profiles the leaves of the shape range over
ShapeTable ==
    << [rootRows |-> <<1>>, children |-> << <<2, 4>>, <<3>>, <<>>, <<>> >>,
        folders |-> {1, 2}, leafProfiles |-> MaxLeaf],
       [rootRows |-> <<1>>, children |-> << <<2, 3, 4>>, <<>>, <<>>, <<>> >>,
        folders |-> {1}, leafProfiles |-> MaxLeaf],
       [rootRows |-> <<1>>, children |-> << <<2>>, <<3>>, <<4>>, <<>> >>,
        folders |-> {1, 2, 3}, leafProfiles |-> MaxLeaf],
       [rootRows |-> <<1>>, children |-> << <<2>>, <<3, 4>>, <<>>, <<>> >>,
        folders |-> {1, 2}, leafProfiles |-> MaxLeaf],
       [rootRows |-> <<1>>, children |-> << <<2, 3>>, <<>>, <<4, 5>>, <<>>, <<>> >>,
        folders |-> {1, 3}, leafProfiles |-> Min(MaxLeaf, 3)],
       [rootRows |-> <<1, 4>>, children |-> << <<2, 3>>, <<>>, <<>>, <<>> >>,
        folders |-> {1}, leafProfiles |-> MaxLeaf] >>

NumShapes == Min(MaxShape, Len(ShapeTable))
NumFolders == Min(MaxFolder, Len(FolderTable(1)))
NumLeaves == Min(MaxLeaf, Len(LeafTable(1)))
NodeCount(sh) == Len(ShapeTable[sh].children)
NodeCap == CHOOSE n \in {NodeCount(sh) : sh \in 1..NumShapes} :
               \A sh \in 1..NumShapes : NodeCount(sh) <= n

\* the document of shape sh whose node i has profile ks[i]
MkDoc(sh, ks) ==
    [children |-> ShapeTable[sh].children, rootRows |-> ShapeTable[sh].rootRows,
     item |-> [i \in 1..NodeCount(sh) |->
                  IF i \in ShapeTable[sh].folders THEN FolderTable(i)[ks[i]]
                  ELSE LeafTable(i)[ks[i]]],
     size |-> [w |-> 6, h |-> 6]]

ProfilesOk(sh, ks) ==
    \A i \in 1..NodeCap :
        ks[i] <= (IF i > NodeCount(sh) THEN 1
                  ELSE IF i \in ShapeTable[sh].folders THEN NumFolders
                  ELSE Min(NumLeaves, ShapeTable[sh].leafProfiles))

\* leaves for applyMasks: an image of w x h pixels at (2,2), a transparency
\* mask of tw x th samples, a layer mask of mw x mh pixels displaced by (dx,dy)
MaskLeaf(w, h, alpha, tw, th, mw, mh, dx, dy, dc) ==
    Item(LayerIdOf(1), "Image", TRUE, "Normal", One, One, Rect(2, 2, w, h),
         ColourImage(w, h, alpha, 10), TransMaskImage(tw, th),
         GrayMaskImage(mw, mh), Rect(2 + dx, 2 + dy, mw, mh), dc)

MaskSizes == {<<0, 0>>} \cup ((1..MaxImg) \X (1..MaxImg))
Offsets == ((0 - MaxOff)..MaxOff) \X ((0 - MaxOff)..MaxOff)
DefaultColors == {0, 128, 255}

(***************************************************************************)
(* State.  disk is the document stored in the file "a.psd"; fileName and   *)
(* layers are what exporterModel holds; call and reply are the last tool   *)
(* call and its return value.                                              *)
(***************************************************************************)
NoCall == [tool |-> "none", layerId |-> 0, path |-> "", args |-> <<>>]
Call(tool, id, path, args) == [tool |-> tool, layerId |-> id, path |-> path, args |-> args]
NoReply == [kind |-> "none", image |-> NullImage, error |-> "", layerCount |-> 0, data |-> <<>>]
ImageReply(img) == [kind |-> "image", image |-> img, error |-> "", layerCount |-> 0, data |-> <<>>]
ErrorReply(e) == [kind |-> "json", image |-> NullImage, error |-> e, layerCount |-> 0, data |-> <<>>]
JsonReply(d) == [kind |-> "json", image |-> NullImage, error |-> "", layerCount |-> 0, data |-> d]
NoLeaf == Leaf(1, TRUE, "Normal", One, One, QRectDefault, NullImage)

Paths == {"a.psd", "missing.psd"}
LayerIds == {LayerIdOf(i) : i \in 1..NodeCap} \cup {999}

(***************************************************************************)
(* Export hints of the exporter model and the sidecar file they are saved  *)
(* to.                                                                     *)
(***************************************************************************)
\* QPsdExporterTreeItemModel::ExportHint of a layer nobody has edited
DefaultHint ==
    [type |-> "Embed", id |-> "", visible |-> TRUE, componentName |-> "",
     baseElement |-> 0, properties |-> {}]
DefaultHints(t) == [i \in 1..Len(t.item) |-> DefaultHint]
layerHint(h, idx) == h[idx]
setLayerHint(h, idx, hint) == [h EXCEPT ![idx] = hint]
NoSidecar == [saved |-> FALSE, hints |-> <<>>]
\* the hints exporterModel.load finds for the document t read from path
loadedHints(t, path) ==
    IF sidecar[path].saved /\ Len(sidecar[path].hints) = Len(t.item)
    THEN sidecar[path].hints
    ELSE DefaultHints(t)

\* main.cpp:171-178
typeMap ==
    [embed |-> "Embed", merge |-> "Merge", custom |-> "Component",
     native |-> "Native", skip |-> "Skip", none |-> "None"]
\* main.cpp:501-505
hintTypeName(t) ==
    CASE t = "Embed" -> "embed" [] t = "Merge" -> "merge" [] t = "Component" -> "custom"
      [] t = "Native" -> "native" [] t = "Skip" -> "skip" [] t = "None" -> "none"
\* QString::toLower on the type strings the tool is called with
toLower(str) ==
    CASE str = "SKIP" -> "skip"
      [] str = "Embed" -> "embed"
      [] OTHER -> str
\* ExportHint::nativeName2Code and nativeCode2Name
nativeName2Code(name) ==
    CASE name = "Button" -> 1
      [] name = "TouchArea" -> 2
      [] OTHER -> 0
nativeCode2Name(code) ==
    CASE code = 1 -> "Button"
      [] code = 2 -> "TouchArea"
      [] OTHER -> "Container"

\* a JSON object with the keys the tools read; a key outside keys is absent
JsonObject(keys, id, visible, componentName, baseElement, properties, width) ==
    [keys |-> keys, id |-> id, visible |-> visible, componentName |-> componentName,
     baseElement |-> baseElement, properties |-> properties, width |-> width]
EmptyObject == JsonObject({}, "", FALSE, "", "", {}, 0)
\* QJsonDocument::fromJson(options.toUtf8()).object() on the option texts the
\* tools are called with; a text that is not JSON gives the empty object
fromJson(text) ==
    CASE text = "{\"id\":\"x\",\"visible\":false,\"componentName\":\"C\",\"baseElement\":\"Button\",\"properties\":[\"color\"]}"
            -> JsonObject({"id", "visible", "componentName", "baseElement", "properties"},
                          "x", FALSE, "C", "Button", {"color"}, 0)
      [] text = "{\"id\":\"\",\"componentName\":\"\",\"baseElement\":\"\"}"
            -> JsonObject({"id", "componentName", "baseElement"}, "", FALSE, "", "", {}, 0)
      [] text = "{\"width\":3}"
            -> JsonObject({"width"}, "", FALSE, "", "", {}, 3)
      [] OTHER -> EmptyObject
HintOptions ==
    {"{\"id\":\"x\",\"visible\":false,\"componentName\":\"C\",\"baseElement\":\"Button\",\"properties\":[\"color\"]}",
     "{\"id\":\"\",\"componentName\":\"\",\"baseElement\":\"\"}",
     "not json"}
HintTypes == {"Embed", "SKIP", "bogus"}

applyOptionsOverwritesAll(hint, lower, opts) ==
    [type |-> typeMap[lower], id |-> opts.id, visible |-> opts.visible,
     componentName |-> opts.componentName,
     baseElement |-> nativeName2Code(opts.baseElement),
     properties |-> opts.properties]
\* main.cpp:186-201: the hint after the type and the options are applied
applyOptions(hint, lower, opts) ==
    [type |-> typeMap[lower],
     id |-> IF "id" \in opts.keys THEN opts.id ELSE hint.id,
     visible |-> IF "visible" \in opts.keys THEN opts.visible ELSE hint.visible,
     componentName |-> IF "componentName" \in opts.keys /\ opts.componentName # ""
                       THEN opts.componentName ELSE hint.componentName,
     baseElement |-> IF "baseElement" \in opts.keys /\ opts.baseElement # ""
                     THEN nativeName2Code(opts.baseElement) ELSE hint.baseElement,
     properties |-> IF "properties" \in opts.keys THEN opts.properties ELSE hint.properties]

(***************************************************************************)
(* Exporter plugins, QPsdFontMapper and the fonts of text layers.          *)
(***************************************************************************)
\* QPsdExporterPlugin::keys
Exporters == {"qtquick"}
Formats == {"qtquick", "bogus"}
\* directories that exist or can be created, and one that cannot
OutputDirs == {"out", "/proc/out"}
creatable(dir) == dir = "out"
NoExports == [dirs |-> {}, files |-> {}]

Fonts == {"Helvetica"}
FontTargets == {"", "Arial"}
NoMapping == [f \in Fonts |-> ""]
NoFontMapper ==
    [global |-> NoMapping, settings |-> NoMapping, context |-> [p \in Paths |-> NoMapping]]
\* QPsdTextLayerItem::runs: originalFontName of the runs of a text layer
runs(item) == IF item.type = "Text" THEN <<"Helvetica">> ELSE <<>>
\* QPsdFontMapper::resolveFont: the context mapping of the file, then the
\* global mapping, then the font itself
resolveFont(font, psdPath) ==
    IF font \in Fonts /\ psdPath \in Paths /\ fontMapper.context[psdPath][font] # ""
    THEN fontMapper.context[psdPath][font]
    ELSE IF font \in Fonts /\ fontMapper.global[font] # ""
    THEN fontMapper.global[font]
    ELSE font

\* main.cpp:477-499, without the seen set: the fonts of the text layers
\* below parent in document order
RECURSIVE collectFonts(_, _), collectFontsLoop(_, _, _)
collectFontsLoop(t, parent, row) ==
    IF row >= rowCount(t, parent) THEN <<>>
    ELSE LET idx == index(t, row, parent)
         IN runs(layerItem(t, idx)) \o collectFonts(t, idx)
            \o collectFontsLoop(t, parent, row + 1)
collectFonts(t, parent) == collectFontsLoop(t, parent, 0)
\* main.cpp:486-487: a font is reported once
RECURSIVE seenOnce(_)
seenOnce(fs) ==
    IF fs = <<>> THEN <<>>
    ELSE LET init == seenOnce(SubSeq(fs, 1, Len(fs) - 1))
             last == fs[Len(fs)]
         IN IF \E k \in 1..Len(init) : init[k] = last THEN init ELSE Append(init, last)

\* main.cpp:452-475
RECURSIVE buildTree(_, _, _), buildTreeLoop(_, _, _, _)
buildTreeLoop(t, h, parent, row) ==
    IF row >= rowCount(t, parent) THEN <<>>
    ELSE LET idx == index(t, row, parent)
             hint == layerHint(h, idx)
         IN <<[layerId |-> layerId(t, idx), type |-> layerItem(t, idx).type,
               hintType |-> hintTypeName(hint.type), visible |-> hint.visible,
               properties |-> hint.properties,
               children |-> buildTree(t, h, idx)]>>
            \o buildTreeLoop(t, h, parent, row + 1)
buildTree(t, h, parent) == buildTreeLoop(t, h, parent, 0)

(***************************************************************************)
(* The first render made since the last load, kept for comparison with     *)
(* later renders of the same node.  It is recorded from NothingRendered    *)
(* only; a behaviour that starts from NotRecording keeps no history.       *)
(***************************************************************************)
NotRecording == [kind |-> "off", layerId |-> 0, image |-> NullImage, others |-> FALSE, again |-> FALSE]
NothingRendered == [kind |-> "none", layerId |-> 0, image |-> NullImage, others |-> FALSE, again |-> FALSE]
\* a call other than a render of the recorded node was made
otherCall(fr) == IF fr.kind = "image" THEN [fr EXCEPT !.others = TRUE] ELSE fr
rendered(fr, id, img) ==
    IF fr.kind = "none"
    THEN [kind |-> "image", layerId |-> id, image |-> img, others |-> FALSE, again |-> FALSE]
    ELSE IF fr.kind = "image" /\ fr.layerId = id THEN [fr EXCEPT !.again = TRUE]
    ELSE otherCall(fr)
reloaded(fr) == IF fr.kind = "off" THEN fr ELSE NothingRendered

maskVars == <<maskItem, maskOut, maskTrace>>

Init ==
    /\ fileName = ""
    /\ layers = EmptyDoc
    /\ \E sh \in 1..NumShapes : \E ks \in [1..NodeCap -> 1..Max(NumFolders, NumLeaves)] :
          /\ ProfilesOk(sh, ks)
          /\ disk = MkDoc(sh, ks)
    /\ call = NoCall
    /\ reply = NoReply
    /\ maskItem = NoLeaf
    /\ maskOut = NullImage
    /\ maskTrace = NoTrace
    /\ hints = DefaultHints(EmptyDoc)
    /\ sidecar = [p \in Paths |-> NoSidecar]
    /\ exported = NoExports
    /\ fontMapper = NoFontMapper
    /\ firstRender = NotRecording

\* main.cpp:41-55.  exporterModel.load reads the file and the hints of its
\* sidecar; a file that cannot be read leaves an error message and no
\* layers, and the file name the model then reports is not known from
\* main.cpp.
load_psd(path) ==
    /\ call' = Call("load_psd", 0, path, <<>>)
    /\ IF path = "a.psd"
       THEN /\ layers' = disk
            /\ hints' = loadedHints(disk, path)
            /\ fileName' = path
            /\ reply' = [kind |-> "json", image |-> NullImage, error |-> "",
                         layerCount |-> countLayers(disk, Invalid),
                         data |-> [file |-> path, width |-> disk.size.w,
                                   height |-> disk.size.h]]
       ELSE /\ layers' = EmptyDoc
            /\ hints' = DefaultHints(EmptyDoc)
            /\ fileName' \in {fileName, path, ""}
            /\ reply' = ErrorReply("load failed")
    /\ firstRender' = reloaded(firstRender)
    /\ UNCHANGED <<disk, maskVars, sidecar, exported, fontMapper>>

\* main.cpp:57-68
get_layer_tree ==
    /\ call' = Call("get_layer_tree", 0, "", <<>>)
    /\ reply' = IF fileName = "" THEN ErrorReply("No PSD file loaded")
                ELSE JsonReply([file |-> fileName,
                                layers |-> buildTree(layers, hints, Invalid)])
    /\ firstRender' = otherCall(firstRender)
    /\ UNCHANGED <<fileName, layers, disk, maskVars, hints, sidecar, exported, fontMapper>>

\* main.cpp:70-163
get_layer_details(id) ==
    LET idx == findLayerById(layers, id, Invalid)
        item == layerItem(layers, idx)
        hint == layerHint(hints, idx)
    IN /\ call' = Call("get_layer_details", id, "", <<>>)
       /\ reply' = IF idx = Invalid THEN ErrorReply("Layer not found")
                   ELSE JsonReply([layerId |-> layerId(layers, idx), rect |-> item.rect,
                                   opacity |-> item.opacity,
                                   fillOpacity |-> item.fillOpacity,
                                   type |-> item.type,
                                   runs |-> runs(item),
                                   childCount |-> rowCount(layers, idx),
                                   exportHint |-> [hint EXCEPT !.type = hintTypeName(@),
                                                       !.baseElement = nativeCode2Name(@)]])
       /\ firstRender' = otherCall(firstRender)
       /\ UNCHANGED <<fileName, layers, disk, maskVars, hints, sidecar, exported, fontMapper>>

\* main.cpp:165-217
set_export_hint(id, type, options) ==
    LET idx == findLayerById(layers, id, Invalid)
        lower == toLower(type)
        opts == fromJson(options)
        hint == applyOptions(layerHint(hints, idx), lower, opts)
    IN /\ call' = Call("set_export_hint", id, "", <<type, options>>)
       /\ IF idx = Invalid
          THEN /\ reply' = ErrorReply("Layer not found")
               /\ hints' = hints
          ELSE IF lower \notin DOMAIN typeMap
          THEN /\ reply' = ErrorReply("Unknown type")
               /\ hints' = hints
          ELSE /\ hints' = setLayerHint(hints, idx, hint)
               /\ reply' = JsonReply([layerId |-> id, id |-> hint.id, type |-> lower,
                                      componentName |-> hint.componentName,
                                      baseElement |-> nativeCode2Name(hint.baseElement),
                                      visible |-> hint.visible,
                                      properties |-> hint.properties])
       /\ firstRender' = otherCall(firstRender)
       /\ UNCHANGED <<fileName, layers, disk, maskVars, sidecar, exported, fontMapper>>

\* main.cpp:219-253.  Whether the plugin's exportTo succeeds is not decided
\* by main.cpp.
do_export(format, outputDir, options) ==
    LET opts == fromJson(options)
        w == IF "width" \in opts.keys /\ opts.width > 0 THEN opts.width ELSE layers.size.w
        h == layers.size.h
    IN /\ call' = Call("do_export", 0, outputDir, <<format, options>>)
       /\ IF fileName = ""
          THEN /\ reply' = ErrorReply("No PSD file loaded")
               /\ exported' = exported
          ELSE IF format \notin Exporters
          THEN /\ reply' = ErrorReply("Unknown exporter")
               /\ exported' = exported
          ELSE IF outputDir \notin exported.dirs /\ ~creatable(outputDir)
          THEN /\ reply' = ErrorReply("Cannot create directory")
               /\ exported' = exported
          ELSE \/ /\ exported' = [exported EXCEPT !.dirs = @ \cup {outputDir}]
                  /\ reply' = ErrorReply("Export failed")
               \/ /\ exported' = [dirs |-> exported.dirs \cup {outputDir},
                                  files |-> exported.files \cup {<<format, outputDir>>}]
                  /\ reply' = JsonReply([format |-> format, outputDir |-> outputDir,
                                         width |-> w, height |-> h])
       /\ firstRender' = otherCall(firstRender)
       /\ UNCHANGED <<fileName, layers, disk, maskVars, hints, sidecar, fontMapper>>

\* main.cpp:255-270
list_exporters ==
    /\ call' = Call("list_exporters", 0, "", <<>>)
    /\ reply' = JsonReply([exporters |-> Exporters])
    /\ firstRender' = otherCall(firstRender)
    /\ UNCHANGED <<fileName, layers, disk, maskVars, hints, sidecar, exported, fontMapper>>

save_hintsUngated ==
    /\ call' = Call("save_hints", 0, "", <<>>)
    /\ sidecar' = [p \in Paths |-> IF p = fileName THEN [saved |-> TRUE, hints |-> hints]
                                    ELSE sidecar[p]]
    /\ reply' = JsonReply([saved |-> TRUE])
    /\ firstRender' = otherCall(firstRender)
    /\ UNCHANGED <<fileName, layers, disk, maskVars, hints, exported, fontMapper>>
\* main.cpp:272-279
save_hints ==
    /\ call' = Call("save_hints", 0, "", <<>>)
    /\ IF fileName = ""
       THEN /\ reply' = ErrorReply("No PSD file loaded")
            /\ sidecar' = sidecar
       ELSE /\ sidecar' = [sidecar EXCEPT ![fileName] = [saved |-> TRUE, hints |-> hints]]
            /\ reply' = JsonReply([saved |-> TRUE])
    /\ firstRender' = otherCall(firstRender)
    /\ UNCHANGED <<fileName, layers, disk, maskVars, hints, exported, fontMapper>>

get_layer_imageMasksInPlace(id) ==
    /\ call' = Call("get_layer_image", id, "", <<>>)
    /\ reply' = ImageReply(renderLayer(layers, id))
    /\ firstRender' = rendered(firstRender, id, renderLayer(layers, id))
    /\ layers' = [layers EXCEPT !.item = [i \in 1..Len(layers.item) |->
                     IF layers.item[i].type = "Folder" THEN layers.item[i]
                     ELSE [layers.item[i] EXCEPT !.image = applyMasks(layers.item[i])]]]
    /\ UNCHANGED <<fileName, disk, maskVars, hints, sidecar, exported, fontMapper>>
\* main.cpp:281-309
get_layer_image(id) ==
    /\ call' = Call("get_layer_image", id, "", <<>>)
    /\ reply' = ImageReply(renderLayer(layers, id))
    /\ firstRender' = rendered(firstRender, id, renderLayer(layers, id))
    /\ UNCHANGED <<fileName, layers, disk, maskVars, hints, sidecar, exported, fontMapper>>

\* main.cpp:311-320
get_fonts_used ==
    /\ call' = Call("get_fonts_used", 0, "", <<>>)
    /\ reply' = IF fileName = "" THEN ErrorReply("No PSD file loaded")
                ELSE LET fs == seenOnce(collectFonts(layers, Invalid))
                     IN JsonReply([fonts |-> [k \in 1..Len(fs) |->
                            [psdFont |-> fs[k],
                             resolvedFont |-> resolveFont(fs[k], fileName)]]])
    /\ firstRender' = otherCall(firstRender)
    /\ UNCHANGED <<fileName, layers, disk, maskVars, hints, sidecar, exported, fontMapper>>

\* main.cpp:322-343
get_font_mappings ==
    /\ call' = Call("get_font_mappings", 0, "", <<>>)
    /\ reply' = IF fileName = "" THEN ErrorReply("No PSD file loaded")
                ELSE JsonReply([global |-> fontMapper.global,
                                context |-> fontMapper.context[fileName]])
    /\ firstRender' = otherCall(firstRender)
    /\ UNCHANGED <<fileName, layers, disk, maskVars, hints, sidecar, exported, fontMapper>>

\* main.cpp:345-372
set_font_mapping(fromFont, toFont, global) ==
    /\ call' = Call("set_font_mapping", 0, "", <<fromFont, toFont, global>>)
    /\ IF fileName = ""
       THEN /\ reply' = ErrorReply("No PSD file loaded")
            /\ fontMapper' = fontMapper
       ELSE /\ fontMapper' =
                 IF global
                 THEN LET g == [fontMapper.global EXCEPT ![fromFont] = toFont]
                      IN [fontMapper EXCEPT !.global = g, !.settings = g]
                 ELSE [fontMapper EXCEPT !.context[fileName][fromFont] = toFont]
            /\ reply' = JsonReply([fromFont |-> fromFont, toFont |-> toFont,
                                   global |-> global])
    /\ firstRender' = otherCall(firstRender)
    /\ UNCHANGED <<fileName, layers, disk, maskVars, hints, sidecar, exported>>

Next ==
    \/ \E path \in Paths : load_psd(path)
    \/ \E id \in LayerIds : get_layer_image(id)

Spec == Init /\ [][Next]_vars

(***************************************************************************)
(* All tools of the server on one document.  The render history is not     *)
(* kept and set_export_hint is called with one option text.                *)
(***************************************************************************)
ToolDocs == {MkDoc(1, <<1, 2, 3, 7, 1>>)}
RenderIds == {LayerIdOf(1), LayerIdOf(2)}
HintIds == {LayerIdOf(2), 999}
EmptiesOption == "{\"id\":\"\",\"componentName\":\"\",\"baseElement\":\"\"}"
WidthOption == "{\"width\":3}"

ToolInit ==
    /\ fileName = ""
    /\ layers = EmptyDoc
    /\ disk \in ToolDocs
    /\ call = NoCall
    /\ reply = NoReply
    /\ maskItem = NoLeaf
    /\ maskOut = NullImage
    /\ maskTrace = NoTrace
    /\ hints = DefaultHints(EmptyDoc)
    /\ sidecar = [p \in Paths |-> NoSidecar]
    /\ exported = NoExports
    /\ fontMapper = NoFontMapper
    /\ firstRender = NotRecording

ToolNext ==
    \/ \E path \in Paths : load_psd(path)
    \/ get_layer_tree
    \/ \E id \in HintIds : get_layer_details(id)
    \/ \E id \in HintIds, type \in {"SKIP", "bogus"} : set_export_hint(id, type, EmptiesOption)
    \/ \E format \in Formats, outputDir \in OutputDirs : do_export(format, outputDir, WidthOption)
    \/ list_exporters
    \/ save_hints
    \/ \E id \in RenderIds : get_layer_image(id)
    \/ get_fonts_used
    \/ get_font_mappings
    \/ \E fromFont \in Fonts, toFont \in FontTargets, global \in BOOLEAN :
          set_font_mapping(fromFont, toFont, global)

ToolSpec == ToolInit /\ [][ToolNext]_vars

(***************************************************************************)
(* The tools that read, edit and save export hints, with every type and    *)
(* option text of HintTypes and HintOptions.                               *)
(***************************************************************************)
HintNext ==
    \/ \E path \in Paths : load_psd(path)
    \/ get_layer_tree
    \/ \E id \in HintIds \cup {LayerIdOf(1)} : get_layer_details(id)
    \/ \E id \in HintIds \cup {LayerIdOf(1)}, type \in HintTypes, options \in HintOptions :
          set_export_hint(id, type, options)
    \/ save_hints

HintSpec == ToolInit /\ [][HintNext]_vars

(***************************************************************************)
(* Renders and the tools that only read, with the first render since the   *)
(* last load kept.                                                         *)
(***************************************************************************)
RenderDocs == ToolDocs \cup {MkDoc(5, <<4, 3, 5, 1, 2>>), MkDoc(2, <<2, 7, 3, 1, 1>>)}

RenderInit ==
    /\ fileName = ""
    /\ layers = EmptyDoc
    /\ disk \in RenderDocs
    /\ call = NoCall
    /\ reply = NoReply
    /\ maskItem = NoLeaf
    /\ maskOut = NullImage
    /\ maskTrace = NoTrace
    /\ hints = DefaultHints(EmptyDoc)
    /\ sidecar = [p \in Paths |-> NoSidecar]
    /\ exported = NoExports
    /\ fontMapper = NoFontMapper
    /\ firstRender = NothingRendered

RenderNext ==
    \/ \E path \in Paths : load_psd(path)
    \/ \E id \in LayerIds : get_layer_image(id)
    \/ get_layer_tree
    \/ \E id \in LayerIds : get_layer_details(id)
    \/ list_exporters
    \/ get_fonts_used
    \/ get_font_mappings

RenderSpec == RenderInit /\ [][RenderNext]_vars

(***************************************************************************)
(* applyMasks on its own: the leaf is drawn from bounded sets.             *)
(***************************************************************************)
MaskInit ==
    /\ fileName = ""
    /\ layers = EmptyDoc
    /\ disk = EmptyDoc
    /\ call = NoCall
    /\ reply = NoReply
    /\ \E s \in MaskSizes, ts \in MaskSizes, ms \in MaskSizes :
       \E al \in BOOLEAN, d \in Offsets, dc \in DefaultColors :
          /\ (ms = <<0, 0>>) => (d = <<0, 0>> /\ dc = 0)
          /\ maskItem = MaskLeaf(s[1], s[2], al, ts[1], ts[2], ms[1], ms[2], d[1], d[2], dc)
    /\ maskOut = NullImage
    /\ maskTrace = NoTrace
    /\ hints = DefaultHints(EmptyDoc)
    /\ sidecar = [p \in Paths |-> NoSidecar]
    /\ exported = NoExports
    /\ fontMapper = NoFontMapper
    /\ firstRender = NotRecording

\* main.cpp:526-573
ApplyMasks ==
    /\ call.tool = "none"
    /\ call' = Call("applyMasks", maskItem.layerId, "", <<>>)
    /\ maskOut' = applyMasks(maskItem)
    /\ maskTrace' = applyMasksTrace(maskItem)
    /\ UNCHANGED <<fileName, layers, disk, reply, maskItem,
                   hints, sidecar, exported, fontMapper, firstRender>>

MaskNext == ApplyMasks

MaskSpec == MaskInit /\ [][MaskNext]_vars


(***************************************************************************)
(* Properties of applyMasks (MaskSpec).                                    *)
(***************************************************************************)
Masked == call.tool = "applyMasks" /\ ~maskItem.image.null
Pixels(img) == (0..(img.w - 1)) \X (0..(img.h - 1))
PixelAt(img, c) == img.px[c[2] + 1][c[1] + 1]

\* alpha of pixel c once the transparency mask has been dealt with
AlphaAfterTransparency(item, c) ==
    IF item.image.alpha THEN PixelAt(item.image, c).a
    ELSE IF ~item.transparencyMask.null
            /\ c[1] < item.transparencyMask.w /\ c[2] < item.transparencyMask.h
         THEN PixelAt(item.transparencyMask, c)
         ELSE 255

\* mask-local coordinate of leaf pixel c
MaskLocal(item, c) ==
    <<item.rect.x + c[1] - item.layerMaskRect.x, item.rect.y + c[2] - item.layerMaskRect.y>>
InsideMask(item, m) ==
    m[1] >= 0 /\ m[1] < item.layerMask.w /\ m[2] >= 0 /\ m[2] < item.layerMask.h
MaskValue(item, c) ==
    IF InsideMask(item, MaskLocal(item, c)) THEN PixelAt(item.layerMask, MaskLocal(item, c))
    ELSE item.layerMaskDefaultColor

\* C7: with a layer mask every pixel's alpha is floor(currentAlpha * maskValue / 255)
\* of the alpha left by the transparency-mask step, T = M = 128 gives 64, and
\* every alpha stays within 0..255.
C7_LayerMaskAlphaFloor ==
    (Masked /\ ~maskItem.layerMask.null) =>
        \A c \in Pixels(maskOut) :
            LET cur == AlphaAfterTransparency(maskItem, c)
                m == MaskValue(maskItem, c)
                a == PixelAt(maskOut, c).a
            IN /\ 255 * a <= cur * m
               /\ cur * m < 255 * (a + 1)
               /\ a \in 0..255
               /\ (cur = 128 /\ m = 128) => a = 64

C7_Witness ==
    /\ Masked
    /\ ~maskItem.layerMask.null /\ ~maskItem.transparencyMask.null /\ ~maskItem.image.alpha
    /\ AlphaAfterTransparency(maskItem, <<0, 0>>) = 128
    /\ MaskValue(maskItem, <<0, 0>>) = 128
    /\ InsideMask(maskItem, MaskLocal(maskItem, <<0, 0>>))
    /\ PixelAt(maskOut, <<0, 0>>).a = 64

\* C8: the mask value of leaf pixel (x,y) is the gray value at the mask-local
\* coordinate (rect.x + x - maskRect.x, rect.y + y - maskRect.y) when that lies
\* inside the mask buffer and defaultColor otherwise; the mask buffer is never
\* read outside its extent.
C8_MaskValueOrDefault ==
    (Masked /\ ~maskItem.layerMask.null) =>
        /\ \A c \in Pixels(maskItem.image) :
              \E smp \in maskTrace.samples :
                  /\ smp.x = c[1] /\ smp.y = c[2]
                  /\ smp.value = MaskValue(maskItem, c)
        /\ \A smp \in maskTrace.samples :
              /\ smp.value = MaskValue(maskItem, <<smp.x, smp.y>>)
              /\ smp.read # <<>> =>
                    /\ smp.read = MaskLocal(maskItem, <<smp.x, smp.y>>)
                    /\ InsideMask(maskItem, smp.read)
              /\ smp.read = <<>> => ~InsideMask(maskItem, MaskLocal(maskItem, <<smp.x, smp.y>>))

C8_Witness ==
    /\ Masked /\ ~maskItem.layerMask.null
    /\ \E a \in maskTrace.samples : a.read # <<>>
    /\ \E b \in maskTrace.samples : b.read = <<>> /\ MaskLocal(maskItem, <<b.x, b.y>>)[1] < 0
    /\ \E b \in maskTrace.samples :
          b.read = <<>> /\ MaskLocal(maskItem, <<b.x, b.y>>)[2] >= maskItem.layerMask.h

\* C9: the transparency mask is applied only when it exists and the buffer has
\* no alpha channel: inside the overlap alpha becomes the mask sample, outside it
\* the pixel is opaque, colours are kept; otherwise the step changes nothing.
C9_TransparencyMaskStep ==
    Masked =>
        IF ~maskItem.transparencyMask.null /\ ~maskItem.image.alpha
        THEN /\ maskTrace.mid.alpha
             /\ maskTrace.mid.w = maskItem.image.w /\ maskTrace.mid.h = maskItem.image.h
             /\ \A c \in Pixels(maskItem.image) :
                   /\ PixelAt(maskTrace.mid, c).rgb = PixelAt(maskItem.image, c).rgb
                   /\ PixelAt(maskTrace.mid, c).a =
                         IF c[1] < maskItem.transparencyMask.w /\ c[2] < maskItem.transparencyMask.h
                         THEN PixelAt(maskItem.transparencyMask, c)
                         ELSE 255
        ELSE maskTrace.mid = maskItem.image

C9_Witness ==
    /\ Masked
    /\ ~maskItem.transparencyMask.null /\ ~maskItem.image.alpha
    /\ maskItem.transparencyMask.w < maskItem.image.w
    /\ PixelAt(maskTrace.mid, <<0, 0>>).a = 128
    /\ PixelAt(maskTrace.mid, <<maskItem.image.w - 1, 0>>).a = 255

C9_WitnessAlpha ==
    /\ Masked
    /\ ~maskItem.transparencyMask.null /\ maskItem.image.alpha
    /\ maskTrace.mid = maskItem.image


(***************************************************************************)
(* Properties of get_layer_image (Spec).                                   *)
(***************************************************************************)
Nodes(t) == 1..Len(t.item)
RenderedIndex == findLayerById(layers, call.layerId, Invalid)
Rendered == call.tool = "get_layer_image" /\ RenderedIndex # Invalid
RenderedFolder == Rendered /\ layers.item[RenderedIndex].type = "Folder"
RenderedLeaf == Rendered /\ layers.item[RenderedIndex].type # "Folder"

RowSet(t, n) == {rows(t, n)[k] : k \in 1..Len(rows(t, n))}
RECURSIVE Descendants(_, _)
Descendants(t, n) == RowSet(t, n) \cup UNION {Descendants(t, c) : c \in RowSet(t, n)}
Subtree(t, n) == {n} \cup Descendants(t, n)

\* the leaves below n that are visible and lie under visible folders only
RECURSIVE VisibleLeaves(_, _)
VisibleLeaves(t, n) ==
    UNION { IF ~t.item[c].visible THEN {}
            ELSE IF t.item[c].type = "Folder" THEN VisibleLeaves(t, c)
            ELSE {c} : c \in RowSet(t, n) }

\* every canvas of an image, with the folder whose children it receives
RECURSIVE CanvasesOf(_, _)
CanvasesOf(img, owner) ==
    IF ~img.canvas THEN {}
    ELSE {[img |-> img, owner |-> owner]}
         \cup UNION {CanvasesOf(img.paints[k].img, img.paints[k].node) : k \in 1..Len(img.paints)}
ReplyCanvases == IF Rendered THEN CanvasesOf(reply.image, RenderedIndex) ELSE {}
PaintedNodes(img) == {img.paints[k].node : k \in 1..Len(img.paints)}
AllPaintedNodes == UNION {PaintedNodes(c.img) : c \in ReplyCanvases}

\* C1: for a node that is not a folder get_layer_image returns applyMasks(node),
\* the pixels with transparency mask and layer mask applied.
C1_LeafReturnsMaskedImage ==
    RenderedLeaf => reply.image = applyMasks(layers.item[RenderedIndex])

\* the tree without node f
Prune(t, f) ==
    [t EXCEPT !.rootRows = SelectSeq(@, LAMBDA c : c # f),
              !.children = [i \in 1..Len(t.children) |-> SelectSeq(t.children[i], LAMBDA c : c # f)]]

HiddenFolders(t) ==
    {f \in Nodes(t) : /\ t.item[f].type = "Folder" /\ ~t.item[f].visible
                      /\ \E c \in RowSet(t, f) : t.item[c].visible}

\* C2 as claimed: an invisible folder with visible children contributes nothing,
\* also when it is itself the node handed to computeBounds and to the render.
C2_HiddenFolderAlwaysEmpty ==
    \A f \in HiddenFolders(layers) :
        /\ isEmptyRect(computeBoundingRect(layers, f))
        /\ (Rendered /\ RenderedIndex = f) => reply.image.null

\* C2 amended: an invisible folder met as a child during the traversal
\* contributes nothing: bounds and render of an enclosing folder are those of
\* the tree without it, and none of its nodes is painted.
C2_HiddenChildContributesNothing ==
    RenderedFolder =>
        \A f \in HiddenFolders(layers) \cap Descendants(layers, RenderedIndex) :
            /\ computeBoundingRect(layers, RenderedIndex)
                  = computeBoundingRect(Prune(layers, f), RenderedIndex)
            /\ reply.image = renderLayer(Prune(layers, f), call.layerId)
            /\ AllPaintedNodes \cap Subtree(layers, f) = {}

C2_Witness ==
    /\ RenderedFolder
    /\ ~reply.image.null
    /\ \E f \in HiddenFolders(layers) \cap Descendants(layers, RenderedIndex) :
          \E c \in RowSet(layers, f) :
              /\ layers.item[c].type # "Folder" /\ layers.item[c].visible
              /\ ~applyMasks(layers.item[c]).null
              /\ layers.item[RenderedIndex].visible

Encloses(r, q) ==
    /\ r.x <= q.x /\ r.y <= q.y
    /\ q.x + q.w <= r.x + r.w /\ q.y + q.h <= r.y + r.h
\* r is the smallest rectangle that encloses every rectangle of the set rs
SmallestEnclosing(r, rs) ==
    /\ \A q \in rs : Encloses(r, q)
    /\ \E q \in rs : r.x = q.x
    /\ \E q \in rs : r.y = q.y
    /\ \E q \in rs : r.x + r.w = q.x + q.w
    /\ \E q \in rs : r.y + r.h = q.y + q.h

LeafRects(t, n) == {t.item[c].rect : c \in VisibleLeaves(t, n)}
NonEmptyLeafRects(t, n) == {r \in LeafRects(t, n) : ~isEmptyRect(r)}
Degenerate(r) == isEmptyRect(r) /\ ~isNullRect(r)

\* C3 as claimed: computeBounds(node) is empty iff no visible leaf is reachable
\* through visible folders, otherwise the smallest rectangle around their rects.
C3_BoundsOfVisibleLeaves ==
    \A n \in Nodes(layers) :
        LET b == computeBoundingRect(layers, n)
        IN /\ isEmptyRect(b) <=> VisibleLeaves(layers, n) = {}
           /\ VisibleLeaves(layers, n) # {} => SmallestEnclosing(b, LeafRects(layers, n))

\* C3 amended: where every reachable visible leaf has a 0x0 rect or a rect of
\* positive width and height, computeBounds(node) is empty iff none of them has
\* a non-empty rect, otherwise the smallest rectangle around the non-empty
\* ones; a rendered folder's canvas has that size.
C3_BoundsOfNonEmptyVisibleLeaves ==
    /\ \A n \in Nodes(layers) :
          (\A r \in LeafRects(layers, n) : ~Degenerate(r)) =>
              LET b == computeBoundingRect(layers, n)
              IN /\ isEmptyRect(b) <=> NonEmptyLeafRects(layers, n) = {}
                 /\ NonEmptyLeafRects(layers, n) # {} =>
                       SmallestEnclosing(b, NonEmptyLeafRects(layers, n))
    /\ (RenderedFolder /\ \A r \in LeafRects(layers, RenderedIndex) : ~Degenerate(r)) =>
          /\ reply.image.null <=> NonEmptyLeafRects(layers, RenderedIndex) = {}
          /\ ~reply.image.null =>
                \E r \in {Rect(x, y, reply.image.w, reply.image.h) : x \in 0..6, y \in 0..6} :
                    SmallestEnclosing(r, NonEmptyLeafRects(layers, RenderedIndex))

C3_Witness ==
    /\ RenderedFolder
    /\ ~reply.image.null
    /\ Cardinality(NonEmptyLeafRects(layers, RenderedIndex)) >= 2
    /\ \E r \in LeafRects(layers, RenderedIndex) : isNullRect(r)
    /\ \A r \in LeafRects(layers, RenderedIndex) : ~Degenerate(r)
    /\ reply.image.w = 3 /\ reply.image.h = 3


ParentOf(t, n) == CHOOSE q \in Nodes(t) \cup {Invalid} : n \in RowSet(t, q)
RowOf(t, n) == CHOOSE k \in 1..Len(rows(t, ParentOf(t, n))) : rows(t, ParentOf(t, n))[k] = n
IsLeaf(t, n) == t.item[n].type # "Folder"
SrcAt(op, c) == pixelOf(op.img, <<c[1] - op.pos.x, c[2] - op.pos.y>>)
OpaqueNormal(op, c) ==
    Covers(op, c) /\ op.mode = "SourceOver" /\ op.opacity = One /\ SrcAt(op, c).a = 255

\* C4: siblings are painted in reverse document order: every paint caused by
\* the child at row j (its descendants included) on a canvas precedes every
\* paint caused by the child at a row i < j; where two opaque Normal siblings
\* overlap, the one listed first gives the final pixel.
C4_ReverseDocumentOrder ==
    \A cv \in ReplyCanvases :
        LET ps == cv.img.paints
        IN \A p \in 1..Len(ps), q \in 1..Len(ps) :
              /\ \A par \in Nodes(layers) : \A i \in 1..Len(rows(layers, par)), j \in 1..Len(rows(layers, par)) :
                    ( /\ i < j
                      /\ ps[p].node \in Subtree(layers, rows(layers, par)[i])
                      /\ ps[q].node \in Subtree(layers, rows(layers, par)[j]) ) => q < p
              /\ \A c \in Pixels(cv.img) :
                    ( /\ p # q
                      /\ IsLeaf(layers, ps[p].node) /\ IsLeaf(layers, ps[q].node)
                      /\ ParentOf(layers, ps[p].node) = ParentOf(layers, ps[q].node)
                      /\ RowOf(layers, ps[p].node) < RowOf(layers, ps[q].node)
                      /\ OpaqueNormal(ps[p], c) /\ OpaqueNormal(ps[q], c)
                      /\ \A k \in 1..Len(ps) : (k \notin {p, q} /\ k > Min(p, q)) => ~Covers(ps[k], c) )
                    => pixelOf(cv.img, c) = SrcAt(ps[p], c)

C4_Witness ==
    /\ RenderedFolder
    /\ Len(rows(layers, RenderedIndex)) = 3
    /\ Len(reply.image.paints) = 3
    /\ \A k \in 1..3 : reply.image.paints[k].node = rows(layers, RenderedIndex)[4 - k]
    /\ \E c \in Pixels(reply.image) :
          /\ \A k \in 1..3 : OpaqueNormal(reply.image.paints[k], c)
          /\ pixelOf(reply.image, c) = SrcAt(reply.image.paints[3], c)
          /\ pixelOf(reply.image, c) # SrcAt(reply.image.paints[1], c)

\* the children whose paints go to the canvas that receives folder n's
\* children: visible leaves and visible isolated folders, looking through
\* visible PassThrough folders
RECURSIVE Targets(_, _)
Targets(t, n) ==
    UNION { IF ~t.item[c].visible THEN {}
            ELSE IF t.item[c].type = "Folder" /\ t.item[c].blendMode = "PassThrough"
            THEN Targets(t, c)
            ELSE {c} : c \in RowSet(t, n) }
Paintable(t, c) ==
    IF t.item[c].type = "Folder" THEN ~isEmptyRect(computeBoundingRect(t, c))
    ELSE ~applyMasks(t.item[c]).null
CanvasOrigin(cv) == topLeft(computeBoundingRect(layers, cv.owner))
ExpectedMode(blend) ==
    CASE blend = "Multiply" -> "Multiply"
      [] blend = "Screen" -> "Screen"
      [] OTHER -> "SourceOver"

\* C5: a visible isolated folder child with non-empty bounds gets one paint on
\* the outer canvas, at childBounds.topLeft - origin with the folder's blend
\* mode and opacity, of a private canvas of the size of computeBounds(folder)
\* that holds all paints of its descendants; none of them is on the outer canvas.
C5_IsolatedGroupPaintedOnce ==
    \A cv \in ReplyCanvases :
        \A f \in Targets(layers, cv.owner) :
            (layers.item[f].type = "Folder" /\ Paintable(layers, f)) =>
                LET ps == cv.img.paints
                    b == computeBoundingRect(layers, f)
                    ks == {k \in 1..Len(ps) : ps[k].node = f}
                IN /\ Cardinality(ks) = 1
                   /\ \A k \in ks :
                         /\ ps[k].img.canvas
                         /\ ps[k].img.w = b.w /\ ps[k].img.h = b.h
                         /\ ps[k].pos = PointSub(topLeft(b), CanvasOrigin(cv))
                         /\ ps[k].mode = ExpectedMode(layers.item[f].blendMode)
                         /\ ps[k].opacity = FMul(layers.item[f].opacity, layers.item[f].fillOpacity)
                         /\ PaintedNodes(ps[k].img)
                               = {c \in Targets(layers, f) : Paintable(layers, c)}
                         /\ \A j \in 1..Len(ps[k].img.paints) :
                               ps[k].img.paints[j].origin = topLeft(b)
                   /\ PaintedNodes(cv.img) \cap Descendants(layers, f) = {}

C5_Witness ==
    /\ RenderedFolder
    /\ \E k \in 1..Len(reply.image.paints) :
          LET op == reply.image.paints[k]
          IN /\ layers.item[op.node].type = "Folder"
             /\ Len(op.img.paints) = 2
             /\ op.img.paints[1].mode # op.img.paints[2].mode
             /\ op.opacity = Half
             /\ Len(reply.image.paints) = 1


\* the tree in which folder f is replaced, in its parent's rows, by its own rows
Splice(rs, f, sub) ==
    IF \E k \in 1..Len(rs) : rs[k] = f
    THEN LET k == CHOOSE k \in 1..Len(rs) : rs[k] = f
         IN SubSeq(rs, 1, k - 1) \o sub \o SubSeq(rs, k + 1, Len(rs))
    ELSE rs
Inline(t, f) ==
    [t EXCEPT !.rootRows = Splice(@, f, t.children[f]),
              !.children = [i \in 1..Len(t.children) |->
                               IF i = f THEN <<>> ELSE Splice(t.children[i], f, t.children[f])]]

PassThroughFolders(t) ==
    {f \in Nodes(t) : /\ t.item[f].type = "Folder" /\ t.item[f].visible
                      /\ t.item[f].blendMode = "PassThrough" /\ t.item[f].opacity = One}

\* C6: a visible PassThrough folder child of opacity 1.0 yields the paints that
\* its children would yield in its place in the parent's child list, and no
\* buffer of its own is painted.
C6_PassThroughIsInlining ==
    RenderedFolder =>
        \A f \in PassThroughFolders(layers) \cap Descendants(layers, RenderedIndex) :
            /\ reply.image = renderLayer(Inline(layers, f), call.layerId)
            /\ f \notin AllPaintedNodes

C6_Witness ==
    /\ RenderedFolder
    /\ \E f \in PassThroughFolders(layers) \cap RowSet(layers, RenderedIndex) :
          /\ Len(reply.image.paints) = 3
          /\ Cardinality(PaintedNodes(reply.image) \cap RowSet(layers, f)) = 2
          /\ Cardinality(PaintedNodes(reply.image) \cap RowSet(layers, RenderedIndex)) = 1

C6_WitnessNested ==
    /\ RenderedFolder
    /\ \E f \in PassThroughFolders(layers) \cap Descendants(layers, RenderedIndex) :
          /\ ParentOf(layers, f) # RenderedIndex
          /\ layers.item[ParentOf(layers, f)].blendMode # "PassThrough"
          /\ layers.item[f].fillOpacity = One
          /\ PaintedNodes(reply.image) = {ParentOf(layers, f)}
          /\ \E c \in RowSet(layers, f) : c \in AllPaintedNodes

\* C10: every paint uses the composition mode of the painted node's blend mode
\* and the opacity ambient * node.opacity * node.fillOpacity, lies at
\* (rect or bounds).topLeft - origin, and leaves the painter's ambient opacity
\* and composition mode as they were before it.
C10_PaintModeOpacityPosition ==
    \A cv \in ReplyCanvases :
        \A k \in 1..Len(cv.img.paints) :
            LET op == cv.img.paints[k]
                item == layers.item[op.node]
                corner == IF item.type = "Folder"
                          THEN topLeft(computeBoundingRect(layers, op.node))
                          ELSE topLeft(item.rect)
            IN /\ op.mode = ExpectedMode(item.blendMode)
               /\ op.opacity = FMul(FMul(op.before.opacity, item.opacity), item.fillOpacity)
               /\ op.pos = PointSub(corner, CanvasOrigin(cv))
               /\ op.origin = CanvasOrigin(cv)
               /\ op.after = op.before
               /\ k < Len(cv.img.paints) => cv.img.paints[k + 1].before = op.after
               /\ k = Len(cv.img.paints) =>
                     (cv.img.endOpacity = op.after.opacity /\ cv.img.endMode = op.after.mode)

C10_Witness ==
    /\ RenderedFolder
    /\ \E k \in 1..Len(reply.image.paints) :
          LET op == reply.image.paints[k]
          IN /\ layers.item[op.node].type = "Folder"
             /\ op.mode = "Multiply" /\ op.opacity = Half
             /\ op.pos # [x |-> 0, y |-> 0]
             /\ \E j \in 1..Len(op.img.paints) :
                   /\ op.img.paints[j].mode = "Multiply"
                   /\ op.img.paints[j].opacity = <<1, 4>>
                   /\ op.img.paints[j].after = [opacity |-> One, mode |-> "SourceOver"]
    /\ \E k \in 1..Len(reply.image.paints) :
          layers.item[reply.image.paints[k].node].type # "Folder"


\* the paints of a canvas in document coordinates: node, mode, opacity and,
\* for a leaf, the image drawn and its document position, for a group, the
\* paints of its canvas (the extent of a group canvas is not compared); the
\* paint of a group canvas nothing was painted on (a transparent image) is
\* left out
RECURSIVE DocPaints(_)
RECURSIVE DocPaintsFrom(_, _)
DocPaintsFrom(img, k) ==
    IF k > Len(img.paints) THEN <<>>
    ELSE LET op == img.paints[k]
             group == IF op.img.canvas THEN DocPaints(op.img) ELSE <<>>
             rest == DocPaintsFrom(img, k + 1)
         IN IF op.img.canvas /\ group = <<>> THEN rest
            ELSE <<[node |-> op.node,
                    at |-> IF op.img.canvas THEN [x |-> 0, y |-> 0]
                           ELSE [x |-> op.pos.x + op.origin.x, y |-> op.pos.y + op.origin.y],
                    mode |-> op.mode, opacity |-> op.opacity,
                    leaf |-> IF op.img.canvas THEN NullImage ELSE op.img,
                    group |-> group]>> \o rest
DocPaints(img) == DocPaintsFrom(img, 1)

EmptyBounds(r) == r.w <= 0 \/ r.h <= 0

\* the visible nodes below the rendered folder that compositeChildren passes
\* over: leaves without pixels and isolated folders with empty bounds
SkippedNodes ==
    {n \in Descendants(layers, RenderedIndex) :
        /\ layers.item[n].visible
        /\ \/ IsLeaf(layers, n) /\ applyMasks(layers.item[n]).null
           \/ /\ ~IsLeaf(layers, n) /\ layers.item[n].blendMode # "PassThrough"
              /\ EmptyBounds(computeBoundingRect(layers, n))}

\* C11 as claimed: a leaf without pixels and an isolated folder with empty
\* bounds are skipped and the render is exactly the render of the tree without
\* them; a root folder with empty bounds yields the empty result.
C11_SkippedNodeAsIfAbsent ==
    RenderedFolder =>
        /\ reply.kind = "image"
        /\ EmptyBounds(computeBoundingRect(layers, RenderedIndex)) => reply.image.null
        /\ \A n \in SkippedNodes :
              reply.image = renderLayer(Prune(layers, n), call.layerId)

\* C11 amended: the skipped node is not painted and every other node is
\* painted with the same image, mode and opacity at the same document
\* position as in the tree without it (the rect of a skipped leaf still counts
\* for the canvas bounds); a root folder with empty bounds yields the empty
\* result and no canvas.
C11_SkippedNodeSamePaints ==
    RenderedFolder =>
        /\ reply.kind = "image"
        /\ EmptyBounds(computeBoundingRect(layers, RenderedIndex))
              => (reply.image.null /\ ~reply.image.canvas)
        /\ \A n \in SkippedNodes :
              /\ n \notin AllPaintedNodes
              /\ DocPaints(reply.image)
                    = DocPaints(renderLayer(Prune(layers, n), call.layerId))

C11_Witness ==
    /\ RenderedFolder
    /\ \E n \in SkippedNodes \cap RowSet(layers, RenderedIndex) :
          /\ IsLeaf(layers, n) /\ ~isEmptyRect(layers.item[n].rect)
          /\ Len(reply.image.paints) >= 1
          /\ reply.image.h > renderLayer(Prune(layers, n), call.layerId).h

C11_WitnessFolder ==
    /\ RenderedFolder
    /\ Len(reply.image.paints) >= 1
    /\ \E n \in SkippedNodes : ~IsLeaf(layers, n) /\ layers.item[ParentOf(layers, n)].visible

C11_WitnessEmptyRoot ==
    /\ RenderedFolder
    /\ reply.image.null
    /\ ~isNullRect(computeBoundingRect(layers, RenderedIndex))


\* the blend modes QtPsdGui::compositionMode has an entry for
HasBlendEntry(blend) == blend \in {"Normal", "Multiply", "Screen"}

\* C13: a node that is about to be painted and carries a blend mode without a
\* pixel-combination entry (an unknown value, or PassThrough on a leaf) makes
\* the render fail; such a node is never painted with a substitute mode.
C13_UnknownBlendFailsLoudly ==
    RenderedFolder =>
        /\ \A n \in AllPaintedNodes : HasBlendEntry(layers.item[n].blendMode)
        /\ (\E n \in VisibleLeaves(layers, RenderedIndex) :
               /\ ~applyMasks(layers.item[n]).null
               /\ ~HasBlendEntry(layers.item[n].blendMode)) => reply.kind # "image"


InitialAmbient == [opacity |-> One, mode |-> "SourceOver"]

\* C16: whenever compositeChildren handles a child, the painter's ambient
\* opacity is 1 and its composition mode is the initial one, on every canvas of
\* a render; so every paint uses exactly opacity * fillOpacity of the painted
\* node, whatever PassThrough or isolated folders enclose it.
C16_AmbientPainterState ==
    RenderedFolder =>
        \A c \in ReplyCanvases :
            /\ c.img.endOpacity = One /\ c.img.endMode = "SourceOver"
            /\ \A k \in 1..Len(c.img.paints) :
                  LET op == c.img.paints[k]
                      item == layers.item[op.node]
                  IN /\ op.before = InitialAmbient
                     /\ op.after = InitialAmbient
                     /\ op.opacity = FMul(item.opacity, item.fillOpacity)

\* a leaf painted at full opacity below a PassThrough folder of opacity 1/2, and
\* a paint made after an earlier paint of reduced opacity on the same canvas
C16_Witness ==
    /\ RenderedFolder
    /\ \E f \in Descendants(layers, RenderedIndex) :
          /\ ~IsLeaf(layers, f) /\ layers.item[f].visible
          /\ layers.item[f].blendMode = "PassThrough"
          /\ layers.item[f].opacity = Half
          /\ \E n \in RowSet(layers, f) \cap PaintedNodes(reply.image) :
                \E k \in 1..Len(reply.image.paints) :
                    /\ reply.image.paints[k].node = n
                    /\ reply.image.paints[k].opacity = One
    /\ \E k \in 2..Len(reply.image.paints) :
          /\ reply.image.paints[k - 1].opacity # One
          /\ reply.image.paints[k].before = InitialAmbient


\* the document-space rectangle a paint of canvas cv writes to
PaintRect(op) ==
    [x |-> op.pos.x + op.origin.x, y |-> op.pos.y + op.origin.y,
     w |-> op.img.w, h |-> op.img.h]
\* the document-space rectangle canvas cv covers, seen from one of its paints
CanvasRect(cv, op) ==
    [x |-> op.origin.x, y |-> op.origin.y, w |-> cv.img.w, h |-> cv.img.h]

\* C17: in every folder render every paint lands inside its target canvas: the
\* paint position is non-negative, a painted leaf's rect lies within the
\* canvas' document-space bounds, and the bounds of an isolated group lie
\* within the bounds of the enclosing canvas, for any nesting of folders.
C17_PaintsInsideCanvas ==
    RenderedFolder =>
        \A cv \in ReplyCanvases :
            \A k \in 1..Len(cv.img.paints) :
                LET op == cv.img.paints[k]
                    item == layers.item[op.node]
                IN /\ op.pos.x >= 0 /\ op.pos.y >= 0
                   /\ op.pos.x + op.img.w <= cv.img.w
                   /\ op.pos.y + op.img.h <= cv.img.h
                   /\ op.origin = CanvasOrigin(cv)
                   /\ PaintRect(op) = IF IsLeaf(layers, op.node) THEN item.rect
                                      ELSE computeBoundingRect(layers, op.node)
                   /\ Encloses(CanvasRect(cv, op), PaintRect(op))

\* an isolated group painted off the canvas origin, with a leaf painted off the
\* group canvas' origin
C17_Witness ==
    /\ RenderedFolder
    /\ \E k \in 1..Len(reply.image.paints) :
          LET op == reply.image.paints[k]
          IN /\ op.img.canvas
             /\ op.pos # [x |-> 0, y |-> 0]
             /\ \E j \in 1..Len(op.img.paints) : op.img.paints[j].pos # [x |-> 0, y |-> 0]


\* the tree with blend mode, opacity and fill opacity of folder f taken from
\* another folder record
WithFolderAttributes(t, f, other) ==
    [t EXCEPT !.item[f] = [@ EXCEPT !.blendMode = other.blendMode,
                                    !.opacity = other.opacity,
                                    !.fillOpacity = other.fillOpacity]]
FolderAttributes == {FolderTable(1)[p] : p \in 1..NumFolders}

\* C18: the render of a folder through get_layer_image does not depend on the
\* folder's own blend mode, opacity or fill opacity (nor on the passThrough
\* argument derived from the blend mode): every tree that differs only in
\* those attributes of the rendered folder gives the same image.
C18_RootAttributesIrrelevant ==
    RenderedFolder =>
        \A other \in FolderAttributes :
            reply.image = renderLayer(WithFolderAttributes(layers, RenderedIndex, other),
                                      call.layerId)

C18_Witness ==
    /\ RenderedFolder
    /\ layers.item[RenderedIndex].blendMode = "Multiply"
    /\ layers.item[RenderedIndex].fillOpacity = Half
    /\ Len(reply.image.paints) >= 2
    /\ \E other \in FolderAttributes :
          /\ other.blendMode = "PassThrough" /\ other.opacity = Half
          /\ WithFolderAttributes(layers, RenderedIndex, other) # layers


\* C12: a render of a node returns the same result (emptiness, size and
\* sequence of paints) as the first render of that node made on the same
\* loaded tree, whatever renders and read-only tool calls were made in between.
C12_RepeatedRenderIdentical ==
    (/\ call.tool = "get_layer_image"
     /\ firstRender.kind = "image"
     /\ firstRender.layerId = call.layerId)
        => reply.image = firstRender.image

\* a folder is rendered again after other calls and the result has paints
C12_Witness ==
    /\ call.tool = "get_layer_image"
    /\ firstRender.kind = "image"
    /\ firstRender.layerId = call.layerId
    /\ firstRender.again /\ firstRender.others
    /\ RenderedFolder
    /\ Len(reply.image.paints) >= 1


GatedTools ==
    {"get_layer_tree", "do_export", "save_hints", "get_fonts_used",
     "get_font_mappings", "set_font_mapping"}
NoPsdLoaded == "No PSD file loaded"

\* C14: a call of get_layer_tree, do_export, save_hints, get_fonts_used,
\* get_font_mappings or set_font_mapping made while the model's file name is
\* empty returns the error "No PSD file loaded" and changes no export, sidecar,
\* font mapping, hint or layer; a load_psd that reports no error leaves a file
\* name, and with a file name none of these tools returns that error.
C14_NoDocumentNoSideEffect ==
    [][/\ call'.tool \in GatedTools =>
             IF fileName = ""
             THEN /\ reply'.error = NoPsdLoaded
                  /\ exported' = exported /\ sidecar' = sidecar
                  /\ fontMapper' = fontMapper /\ hints' = hints
                  /\ layers' = layers /\ fileName' = fileName
             ELSE reply'.error # NoPsdLoaded
       /\ (call'.tool = "load_psd" /\ reply'.error = "") => fileName' # ""]_vars

\* set_font_mapping refused without a document
C14_Witness ==
    /\ fileName = ""
    /\ call.tool = "set_font_mapping"
    /\ call.args[2] = "Arial"
    /\ reply.error = NoPsdLoaded
    /\ fontMapper = NoFontMapper
    /\ exported = NoExports

C14_WitnessLoaded ==
    /\ fileName # ""
    /\ call.tool = "do_export"
    /\ reply.error = ""
    /\ exported.files # {}


\* the hint type a type string names, compared case-insensitively
NamedType(type) ==
    CASE type \in {"embed", "Embed", "EMBED"} -> "Embed"
      [] type \in {"merge", "Merge", "MERGE"} -> "Merge"
      [] type \in {"custom", "Custom", "CUSTOM"} -> "Component"
      [] type \in {"native", "Native", "NATIVE"} -> "Native"
      [] type \in {"skip", "Skip", "SKIP"} -> "Skip"
      [] type \in {"none", "None", "NONE"} -> "None"
      [] OTHER -> "unknown"

\* C15: set_export_hint returns an error and changes no hint when layerId
\* matches no layer or the type, compared case-insensitively, is not one of
\* embed, merge, custom, native, skip, none; otherwise it changes the hint of
\* the addressed layer only: the type always, id, visible and properties when
\* the key is in the options, componentName and baseElement when the key is in
\* the options with a non-empty value.
C15_SetExportHintEffect ==
    [][call'.tool = "set_export_hint" =>
          LET idx == findLayerById(layers, call'.layerId, Invalid)
              type == call'.args[1]
              opts == fromJson(call'.args[2])
          IN IF idx = Invalid \/ NamedType(type) = "unknown"
             THEN reply'.error # "" /\ hints' = hints
             ELSE /\ reply'.error = ""
                  /\ DOMAIN hints' = DOMAIN hints
                  /\ \A i \in DOMAIN hints : i # idx => hints'[i] = hints[i]
                  /\ hints'[idx].type = NamedType(type)
                  /\ hints'[idx].id = IF "id" \in opts.keys THEN opts.id ELSE hints[idx].id
                  /\ hints'[idx].visible = IF "visible" \in opts.keys THEN opts.visible
                                           ELSE hints[idx].visible
                  /\ hints'[idx].componentName =
                        IF "componentName" \in opts.keys /\ opts.componentName # ""
                        THEN opts.componentName ELSE hints[idx].componentName
                  /\ IF "baseElement" \in opts.keys /\ opts.baseElement # ""
                     THEN nativeCode2Name(hints'[idx].baseElement) = opts.baseElement
                     ELSE hints'[idx].baseElement = hints[idx].baseElement
                  /\ hints'[idx].properties = IF "properties" \in opts.keys THEN opts.properties
                                              ELSE hints[idx].properties]_vars

\* a call with type SKIP and empty id, componentName and baseElement on a layer
\* whose hint had all fields set, while another layer has an edited hint
C15_Witness ==
    /\ call.tool = "set_export_hint"
    /\ call.args = <<"SKIP", EmptiesOption>>
    /\ reply.error = ""
    /\ LET idx == findLayerById(layers, call.layerId, Invalid)
       IN /\ idx # Invalid
          /\ hints[idx] = [type |-> "Skip", id |-> "", visible |-> FALSE,
                           componentName |-> "C", baseElement |-> nativeName2Code("Button"),
                           properties |-> {"color"}]
          /\ \E i \in DOMAIN hints : i # idx /\ hints[i] # DefaultHint

C15_WitnessError ==
    /\ call.tool = "set_export_hint"
    /\ call.args[1] = "bogus"
    /\ reply.error # ""
    /\ \E i \in DOMAIN hints : hints[i] # DefaultHint

====
